---- MODULE Spec2Model ----
(***************************************************************************)
(* Advent of Code 2022 solutions: the rope simulation (day-09), the grid   *)
(* visibility / scenic scanner (day-08), the moveTail follower rule, the   *)
(* filesystem replay and size aggregation (day-07) and the crate stacks    *)
(* (day-05).                                                               *)
(* Every program is a batch run: parse -> simulate -> reduce -> print.     *)
(***************************************************************************)
EXTENDS Integers, Sequences, FiniteSets, TLC

(***************************************************************************)
(* Bounds of the model.                                                    *)
(***************************************************************************)
\* number of input lines of a rope run
MaxInstr == 3
\* largest step count of one rope instruction
MaxNumSteps == 2
\* largest rope length (number of knots) a run is started with
MaxKnots == 3
\* moveTail is applied to every head/tail pair of the box -MaxCoord..MaxCoord
MaxCoord == 2
\* a height matrix drawn exhaustively has at most MaxSide rows and columns,
\* at most MaxCells cells ...
MaxSide == 4
MaxCells == 9
\* ... of heights 0..MaxHeight
MaxHeight == 1
\* a grid whose rows differ in length has at most MaxRaggedCells cells
MaxRaggedCells == 5
\* number of input lines of a freely chosen terminal session
MaxLines == 6
\* a freely chosen crate diagram has at most MaxStacks columns ...
MaxStacks == 3
\* ... of at most MaxDepth crates each
MaxDepth == 2
\* getPriority is called on the characters of code 0..MaxCharCode
MaxCharCode == 127
\* the data stream handed to the marker search has at most MaxStream characters
MaxStream == 5
\* largest number of distinct characters asked of findDistinctNChars
MaxNumChars == 4
\* a calories list has at most MaxElves groups ...
MaxElves == 3
\* ... of at most MaxItems lines each
MaxItems == 2
\* largest count of a freely chosen move instruction
MaxCount == 3
\* number of move instructions of a freely chosen procedure
MaxMoves == 2

VARIABLES
    \* ---- day-09: state of main / performInstructions / performInstruction
    positions,      \* state.positions: the knots, knot k is positions[k + 1]
    visited,        \* state.visited: keys of the last knot's coordinates
    instruction,    \* the instruction performInstruction is working on
    ip,             \* number of input lines consumed so far
    step,           \* the loop variable _ of performInstruction
    knot,           \* the loop variable i of performInstruction
    rpc,            \* position in the run
    output,         \* what main printed (state.visited.size), NoOutput before
    trail,          \* coordinates the head has occupied, origin included
    \* ---- moveTail called on its own
    mtHead, mtTail, mtResult, mtpc,
    \* ---- day-08: the height matrix and the results of its two traversals
    matrix,         \* parseMatrix(lines): row i, column j is matrix[i + 1][j + 1]
    count,          \* what countVisible returned
    max,            \* what findMaxScenicScore returned
    gpc,            \* position in the run
    \* ---- day-07 (in day-02.js): the filesystem replay and aggregation
    nodes,          \* every node object created so far; root is nodes[1]
    cwd,            \* state.cwd: a node of nodes, or Undefined
    index,          \* number of input lines consumed so far
    session,        \* which input text is replayed: "sample" or "any"
    fpc,            \* position in the run
    smallDirs,      \* result of findSmallDirs(100000, root)
    bigDirs,        \* result of findSmallDirs(T2, root, {big: true})
    fsOutput,       \* what main printed, NoOutput before
    \* ---- day-05 (part_003): the crate stacks
    stacks,         \* the Array of Stacks; a hole of the array is NoStack
    moves,          \* number of instructions performed so far
    crates,         \* which input text is run: "sample" or "any"
    spc,            \* position in the run
    stackOutput,    \* what main printed, NoOutput before
    \* ---- a function called on its own
    callee,         \* the name of the function, "none" when none is called
    args,           \* its arguments
    result,         \* what it returned
    cpc             \* "called" before and "returned" after the call

ropeVars == <<positions, visited, instruction, ip, step, knot, rpc, output, trail>>
tailVars == <<mtHead, mtTail, mtResult, mtpc>>
gridVars == <<matrix, count, max, gpc>>
fsVars == <<nodes, cwd, index, session, fpc, smallDirs, bigDirs, fsOutput>>
stackVars == <<stacks, moves, crates, spc, stackOutput>>
callVars == <<callee, args, result, cpc>>
vars == <<ropeVars, tailVars, gridVars, fsVars, stackVars, callVars>>

NoOutput == [printed |-> FALSE]
Printed(n) == [printed |-> TRUE, value |-> n]

Abs(n) == IF n < 0 THEN -n ELSE n

(***************************************************************************)
(* day-09: parsing.  A line is the list of its space-separated tokens; a   *)
(* numeric token is written as the number it denotes.  The empty input     *)
(* text is the single line "" (parseLines never returns an empty list).    *)
(***************************************************************************)
Directions == {"U", "D", "L", "R"}

BlankLine == <<"">>

InstructionLines == {<<d, n>> : d \in Directions, n \in 1..MaxNumSteps}

\* Number(token): NaN when the token is missing (Number(undefined))
Number(line, k) ==
    IF k <= Len(line) THEN [nan |-> FALSE, val |-> line[k]] ELSE [nan |-> TRUE]

parseInstruction(line) ==
    [direction |-> line[1], numSteps |-> Number(line, 2)]

\* the JS comparison a < b, false whenever b is NaN
LessThan(a, b) == (~b.nan) /\ a < b.val

(***************************************************************************)
(* day-09: the motion rules.                                               *)
(***************************************************************************)
Origin == [x |-> 0, y |-> 0]

movePosition(direction, currentPosition) ==
    CASE direction = "U" -> [x |-> currentPosition.x, y |-> currentPosition.y + 1]
      [] direction = "D" -> [x |-> currentPosition.x, y |-> currentPosition.y - 1]
      [] direction = "R" -> [x |-> currentPosition.x + 1, y |-> currentPosition.y]
      [] direction = "L" -> [x |-> currentPosition.x - 1, y |-> currentPosition.y]

\* areAdjacent that forgets the y axis
areAdjacentXOnly(a, b) ==
    Abs(a.x - b.x) <= 1

areAdjacent(a, b) ==
    LET xDistance == Abs(a.x - b.x)
        yDistance == Abs(a.y - b.y)
    IN  xDistance <= 1 /\ yDistance <= 1

\* moveTail without the diagonal case: two coordinates differ, only y is followed
moveTailNoDiagonal(headPosition, tailPosition) ==
    IF areAdjacent(headPosition, tailPosition) THEN tailPosition
    ELSE LET yDirection == IF headPosition.y > tailPosition.y THEN "U" ELSE "D"
             xDirection == IF headPosition.x > tailPosition.x THEN "R" ELSE "L"
         IN  IF headPosition.y = tailPosition.y
               THEN movePosition(xDirection, tailPosition)
             ELSE movePosition(yDirection, tailPosition)

moveTail(headPosition, tailPosition) ==
    IF areAdjacent(headPosition, tailPosition) THEN tailPosition
    ELSE LET yDirection == IF headPosition.y > tailPosition.y THEN "U" ELSE "D"
             xDirection == IF headPosition.x > tailPosition.x THEN "R" ELSE "L"
         IN  IF headPosition.x = tailPosition.x
               THEN movePosition(yDirection, tailPosition)
             ELSE IF headPosition.y = tailPosition.y
               THEN movePosition(xDirection, tailPosition)
             ELSE LET intermediatePosition == movePosition(yDirection, tailPosition)
                  IN  movePosition(xDirection, intermediatePosition)

\* the key `${x},${y}` of the visited set: one key per coordinate pair
Key(p) == <<p.x, p.y>>

\* state.visited as main creates it: new Set()
InitialVisited == {}

(***************************************************************************)
(* day-09: the run.                                                        *)
(***************************************************************************)
RopeIdle ==
    /\ positions = <<>>
    /\ visited = {}
    /\ instruction = parseInstruction(BlankLine)
    /\ ip = 0
    /\ step = 0
    /\ knot = 0
    /\ rpc = "idle"
    /\ output = NoOutput
    /\ trail = {}

TailIdle ==
    /\ mtHead = Origin
    /\ mtTail = Origin
    /\ mtResult = Origin
    /\ mtpc = "idle"

GridIdle ==
    /\ matrix = <<>>
    /\ count = 0
    /\ max = 0
    /\ gpc = "idle"

FsIdle ==
    /\ nodes = <<>>
    /\ cwd = 0
    /\ index = 0
    /\ session = "idle"
    /\ fpc = "idle"
    /\ smallDirs = <<>>
    /\ bigDirs = <<>>
    /\ fsOutput = NoOutput

StackIdle ==
    /\ stacks = <<>>
    /\ moves = 0
    /\ crates = "idle"
    /\ spc = "idle"
    /\ stackOutput = NoOutput

CallIdle ==
    /\ callee = "none"
    /\ args = <<>>
    /\ result = 0
    /\ cpc = "idle"

\* main's initial state, for a rope of N knots (main itself uses 10)
RopeInit ==
    /\ \E N \in 1..MaxKnots : positions = [k \in 1..N |-> Origin]
    /\ visited = InitialVisited
    /\ instruction = parseInstruction(BlankLine)
    /\ ip = 0
    /\ step = 0
    /\ knot = 0
    /\ rpc = "fetch"
    /\ output = NoOutput
    /\ trail = {Key(Origin)}

\* performInstructions: the next instruction of the list is handed over
ReadInstruction ==
    /\ rpc = "fetch"
    /\ ip < MaxInstr
    /\ \E line \in InstructionLines \cup {BlankLine} :
          /\ line = BlankLine => ip = 0
          /\ instruction' = parseInstruction(line)
    /\ ip > 0 => instruction.direction # ""
    /\ ip' = ip + 1
    /\ step' = 0
    /\ rpc' = "step"
    /\ UNCHANGED <<positions, visited, knot, output, trail, tailVars, gridVars, fsVars, stackVars, callVars>>

\* performInstruction, loop body: move the very first head one step
MoveHead ==
    /\ rpc = "step"
    /\ LessThan(step, instruction.numSteps)
    /\ positions' = [positions EXCEPT
                        ![1] = movePosition(instruction.direction, positions[1])]
    /\ trail' = trail \cup {Key(positions'[1])}
    /\ knot' = 1
    /\ rpc' = "knots"
    /\ UNCHANGED <<visited, instruction, ip, step, output, tailVars, gridVars, fsVars, stackVars, callVars>>

\* performInstruction, inner loop: knot i follows knot i - 1
MoveKnot ==
    /\ rpc = "knots"
    /\ knot < Len(positions)
    /\ positions' = [positions EXCEPT
                        ![knot + 1] = moveTail(positions[knot], positions[knot + 1])]
    /\ knot' = knot + 1
    /\ UNCHANGED <<visited, instruction, ip, step, rpc, output, trail, tailVars, gridVars, fsVars, stackVars, callVars>>

\* Record placed inside the inner loop: it no longer waits for the last knot
RecordEarly ==
    /\ rpc = "knots"
    /\ visited' = visited \cup {Key(positions[Len(positions)])}
    /\ step' = step + 1
    /\ rpc' = "step"
    /\ UNCHANGED <<positions, instruction, ip, knot, output, trail, tailVars, gridVars, fsVars, stackVars, callVars>>

\* performInstruction, end of the loop body: remember the last knot
Record ==
    /\ rpc = "knots"
    /\ ~(knot < Len(positions))
    /\ visited' = visited \cup {Key(positions[Len(positions)])}
    /\ step' = step + 1
    /\ rpc' = "step"
    /\ UNCHANGED <<positions, instruction, ip, knot, output, trail, tailVars, gridVars, fsVars, stackVars, callVars>>

\* performInstruction returns
EndInstruction ==
    /\ rpc = "step"
    /\ ~LessThan(step, instruction.numSteps)
    /\ rpc' = "fetch"
    /\ UNCHANGED <<positions, visited, instruction, ip, step, knot, output, trail, tailVars, gridVars, fsVars, stackVars, callVars>>

\* main prints state.visited.size
PrintVisited ==
    /\ rpc = "fetch"
    /\ ip >= 1
    /\ output' = Printed(Cardinality(visited))
    /\ rpc' = "done"
    /\ UNCHANGED <<positions, visited, instruction, ip, step, knot, trail, tailVars, gridVars, fsVars, stackVars, callVars>>

RopeNext ==
    \/ ReadInstruction
    \/ MoveHead
    \/ MoveKnot
    \/ Record
    \/ EndInstruction
    \/ PrintVisited

Init == RopeInit /\ TailIdle /\ GridIdle /\ FsIdle /\ StackIdle /\ CallIdle
Next == RopeNext
Spec == Init /\ [][Next]_vars

(***************************************************************************)
(* moveTail called on its own, on every head/tail pair of a box.           *)
(***************************************************************************)
Box == {[x |-> a, y |-> b] : a \in -MaxCoord..MaxCoord, b \in -MaxCoord..MaxCoord}

MoveTailInit ==
    /\ mtHead \in Box
    /\ mtTail \in Box
    /\ mtResult = mtTail
    /\ mtpc = "call"

CallMoveTail ==
    /\ mtpc = "call"
    /\ mtResult' = moveTail(mtHead, mtTail)
    /\ mtpc' = "ret"
    /\ UNCHANGED <<mtHead, mtTail, ropeVars, gridVars, fsVars, stackVars, callVars>>

InitMoveTail == RopeIdle /\ MoveTailInit /\ GridIdle /\ FsIdle /\ StackIdle /\ CallIdle
NextMoveTail == CallMoveTail
SpecMoveTail == InitMoveTail /\ [][NextMoveTail]_vars

(***************************************************************************)
(* Properties of the rope simulation.                                      *)
(***************************************************************************)
Max2(a, b) == IF a >= b THEN a ELSE b
Chebyshev(a, b) == Max2(Abs(a.x - b.x), Abs(a.y - b.y))
Sgn(n) == IF n > 0 THEN 1 ELSE IF n < 0 THEN -1 ELSE 0

\* a unit step is complete when control is back at the loop test or beyond
BetweenUnitSteps == rpc \in {"fetch", "step", "done"}

\* C1: after every unit step of performInstruction, every adjacent pair of
\* knots is within Chebyshev distance 1.
C1_AdjacentKnots ==
    BetweenUnitSteps =>
        \A k \in 1..(Len(positions) - 1) :
            Chebyshev(positions[k], positions[k + 1]) <= 1

\* a rope of three knots whose last knot has been pulled off the origin
C1_Witness ==
    /\ rpc = "step"
    /\ Len(positions) = 3
    /\ positions[3] # Origin
    /\ Chebyshev(positions[1], positions[2]) = 1

\* what the follower rule asks of moveTail(h, t)
Followed(h, t) ==
    IF Chebyshev(h, t) <= 1 THEN t
    ELSE [x |-> t.x + Sgn(h.x - t.x), y |-> t.y + Sgn(h.y - t.y)]

\* C2: moveTail returns the tail unchanged within Chebyshev distance 1, and
\* otherwise the tail moved one unit toward the head on every axis where they
\* differ (one axis when a row or column is shared, both at once otherwise).
C2_FollowerRule ==
    mtpc = "ret" =>
        /\ mtResult = Followed(mtHead, mtTail)
        /\ Chebyshev(mtHead, mtTail) <= 1 => mtResult = mtTail
        /\ (Chebyshev(mtHead, mtTail) > 1 /\ mtHead.x = mtTail.x) =>
              (mtResult.x = mtTail.x /\ Abs(mtResult.y - mtTail.y) = 1)
        /\ (Chebyshev(mtHead, mtTail) > 1 /\ mtHead.y = mtTail.y) =>
              (mtResult.y = mtTail.y /\ Abs(mtResult.x - mtTail.x) = 1)
        /\ (Chebyshev(mtHead, mtTail) > 1 /\ mtHead.x # mtTail.x /\ mtHead.y # mtTail.y) =>
              (Abs(mtResult.x - mtTail.x) = 1 /\ Abs(mtResult.y - mtTail.y) = 1)

\* a diagonal move has been returned
C2_Witness ==
    /\ mtpc = "ret"
    /\ Chebyshev(mtHead, mtTail) > 1
    /\ mtResult.x # mtTail.x
    /\ mtResult.y # mtTail.y

\* exactly one coordinate of p changed, by exactly 1
OneUnitApart(p, q) == Abs(p.x - q.x) + Abs(p.y - q.y) = 1

\* C3: an instruction of k steps is k unit steps; in a unit step the head
\* moves one coordinate by 1, then knots 1..N-1 follow in increasing order,
\* each against the already-updated previous knot, and only then the last
\* knot is recorded, once; the visited set never loses an element.
C3_StepOrdering ==
    [][ /\ (rpc = "step" /\ rpc' = "knots") =>
              /\ OneUnitApart(positions[1], positions'[1])
              /\ \A k \in 2..Len(positions) : positions'[k] = positions[k]
              /\ knot' = 1
              /\ visited' = visited
        /\ (rpc = "knots" /\ rpc' = "knots") =>
              /\ knot' = knot + 1
              /\ knot < Len(positions)
              /\ positions'[knot + 1] = Followed(positions[knot], positions[knot + 1])
              /\ \A k \in 1..Len(positions) : k # knot + 1 => positions'[k] = positions[k]
              /\ visited' = visited
        /\ (rpc = "knots" /\ rpc' = "step") =>
              /\ knot = Len(positions)
              /\ positions' = positions
              /\ visited' = visited \cup {Key(positions[Len(positions)])}
              /\ step' = step + 1
        /\ (rpc = "step" /\ rpc' = "fetch" /\ ~instruction.numSteps.nan) =>
              step = instruction.numSteps.val
        /\ rpc \notin {"step", "knots"} => (positions' = positions /\ visited' = visited)
        /\ Len(positions') = Len(positions)
        /\ visited \subseteq visited'
      ]_vars

\* a two-step instruction of a three-knot rope has been carried out
C3_Witness ==
    /\ rpc = "fetch"
    /\ Len(positions) = 3
    /\ ~instruction.numSteps.nan
    /\ instruction.numSteps.val = 2
    /\ step = 2
    /\ Cardinality(visited) >= 2

\* the run read the empty input text
EmptyInput == ip = 1 /\ instruction.direction = ""

\* C4: with an empty instruction list the visited set is {origin} and the
\* printed answer is 1.
C4_EmptyInputVisitsOrigin ==
    (rpc = "done" /\ EmptyInput) =>
        (visited = {Key(Origin)} /\ output = Printed(1))

SampleMatrix ==
    << <<3, 0, 3, 7, 3>>,
       <<2, 5, 5, 1, 2>>,
       <<6, 5, 3, 3, 2>>,
       <<3, 3, 5, 4, 9>>,
       <<3, 5, 3, 9, 0>> >>

Shapes == {rc \in (1..MaxSide) \X (1..MaxSide) : rc[1] * rc[2] <= MaxCells}

\* every rectangular matrix of a shape, heights 0..MaxHeight
MatricesOf(rc) == [1..rc[1] -> [1..rc[2] -> 0..MaxHeight]]

Reverse(seq) == [k \in 1..Len(seq) |-> seq[Len(seq) + 1 - k]]

\* Array#slice(from, to) for 0 <= from, 0 <= to: elements from..to-1
Slice(seq, from, to) ==
    LET hi == IF to > Len(seq) THEN Len(seq) ELSE to
    IN  IF from >= hi THEN <<>> ELSE [k \in 1..(hi - from) |-> seq[from + k]]

\* getLeft that forgets to reverse the slice
getLeftInOrder(i, j, matrix_) == Slice(matrix_[i + 1], 0, j)

getLeft(i, j, matrix_) == Reverse(Slice(matrix_[i + 1], 0, j))

getRight(i, j, matrix_) == Slice(matrix_[i + 1], j + 1, Len(matrix_[i + 1]))

\* what matrix[cur][j] gives past the end of a row: undefined
UndefinedHeight == -1

\* matrix[cur][j], for the 1-based row r and column c
ElementAt(matrix_, r, c) ==
    IF c <= Len(matrix_[r]) THEN matrix_[r][c] ELSE UndefinedHeight

\* current >= element: false when current is undefined (it converts to NaN)
AtLeast(current, element) == current # UndefinedHeight /\ current >= element

getTop(i, j, matrix_) == [k \in 1..i |-> ElementAt(matrix_, i - k + 1, j + 1)]

getBottom(i, j, matrix_) ==
    [k \in 1..(Len(matrix_) - i - 1) |-> ElementAt(matrix_, i + 1 + k, j + 1)]

\* isVisibleFromSide where an equal tree does not block
RECURSIVE isVisibleFromSideStrict(_, _)
isVisibleFromSideStrict(element, side) ==
    IF side = <<>> THEN TRUE
    ELSE IF Head(side) > element THEN FALSE
    ELSE isVisibleFromSideStrict(element, Tail(side))

RECURSIVE isVisibleFromSide(_, _)
isVisibleFromSide(element, side) ==
    IF side = <<>> THEN TRUE
    ELSE IF AtLeast(Head(side), element) THEN FALSE
    ELSE isVisibleFromSide(element, Tail(side))

\* isVisible that checks the column only
isVisibleColumnOnly(i, j, matrix_) ==
    LET isEdgeElement ==
            \/ i = 0
            \/ i = Len(matrix_) - 1
            \/ j = 0
            \/ j = Len(matrix_[i + 1]) - 1
        element == matrix_[i + 1][j + 1]
    IN  IF isEdgeElement THEN TRUE
        ELSE IF isVisibleFromSide(element, getTop(i, j, matrix_)) THEN TRUE
        ELSE IF isVisibleFromSide(element, getBottom(i, j, matrix_)) THEN TRUE
        ELSE FALSE

isVisible(i, j, matrix_) ==
    LET isEdgeElement ==
            \/ i = 0
            \/ i = Len(matrix_) - 1
            \/ j = 0
            \/ j = Len(matrix_[i + 1]) - 1
        element == matrix_[i + 1][j + 1]
    IN  IF isEdgeElement THEN TRUE
        ELSE IF isVisibleFromSide(element, getLeft(i, j, matrix_)) THEN TRUE
        ELSE IF isVisibleFromSide(element, getRight(i, j, matrix_)) THEN TRUE
        ELSE IF isVisibleFromSide(element, getTop(i, j, matrix_)) THEN TRUE
        ELSE IF isVisibleFromSide(element, getBottom(i, j, matrix_)) THEN TRUE
        ELSE FALSE

\* the two nested loops of countVisible, from cell (i, j) on
RECURSIVE countVisibleLoop(_, _, _, _)
countVisibleLoop(i, j, count_, matrix_) ==
    IF ~(i < Len(matrix_)) THEN count_
    ELSE IF ~(j < Len(matrix_[i + 1])) THEN countVisibleLoop(i + 1, 0, count_, matrix_)
    ELSE countVisibleLoop(i, j + 1,
                          IF isVisible(i, j, matrix_) THEN count_ + 1 ELSE count_,
                          matrix_)

countVisible(matrix_) == countVisibleLoop(0, 0, 0, matrix_)

\* the loop of getViewingDistanceFromSide with the test before the increment
RECURSIVE viewingDistanceLoopBlockerNotCounted(_, _, _)
viewingDistanceLoopBlockerNotCounted(element, side, viewingDistance) ==
    IF side = <<>> THEN viewingDistance
    ELSE IF Head(side) >= element THEN viewingDistance
    ELSE viewingDistanceLoopBlockerNotCounted(element, Tail(side), viewingDistance + 1)

RECURSIVE viewingDistanceLoop(_, _, _)
viewingDistanceLoop(element, side, viewingDistance) ==
    IF side = <<>> THEN viewingDistance
    ELSE IF AtLeast(Head(side), element) THEN viewingDistance + 1
    ELSE viewingDistanceLoop(element, Tail(side), viewingDistance + 1)

getViewingDistanceFromSide(element, side) == viewingDistanceLoop(element, side, 0)

\* the reduce callback folded over the rest of the array, adding
RECURSIVE reduceByAdding(_, _)
reduceByAdding(scenicScore, rest) ==
    IF rest = <<>> THEN scenicScore
    ELSE reduceByAdding(scenicScore + Head(rest), Tail(rest))

\* Array#reduce with the callback of getScenicScore: the accumulator is
\* multiplied by each remaining viewing distance in turn
RECURSIVE reduceByMultiplying(_, _)
reduceByMultiplying(scenicScore, rest) ==
    IF rest = <<>> THEN scenicScore
    ELSE reduceByMultiplying(scenicScore * Head(rest), Tail(rest))

\* getScenicScore that adds the viewing distances
getScenicScoreSum(i, j, matrix_) ==
    LET element == matrix_[i + 1][j + 1]
        viewingDistances ==
            << getViewingDistanceFromSide(element, getTop(i, j, matrix_)),
               getViewingDistanceFromSide(element, getLeft(i, j, matrix_)),
               getViewingDistanceFromSide(element, getRight(i, j, matrix_)),
               getViewingDistanceFromSide(element, getBottom(i, j, matrix_)) >>
    IN  reduceByAdding(Head(viewingDistances), Tail(viewingDistances))

\* reduce without an initial value starts from the first element
getScenicScore(i, j, matrix_) ==
    LET element == matrix_[i + 1][j + 1]
        viewingDistances ==
            << getViewingDistanceFromSide(element, getTop(i, j, matrix_)),
               getViewingDistanceFromSide(element, getLeft(i, j, matrix_)),
               getViewingDistanceFromSide(element, getRight(i, j, matrix_)),
               getViewingDistanceFromSide(element, getBottom(i, j, matrix_)) >>
    IN  reduceByMultiplying(Head(viewingDistances), Tail(viewingDistances))

\* the two nested loops of findMaxScenicScore, from cell (i, j) on
RECURSIVE findMaxScenicScoreLoop(_, _, _, _)
findMaxScenicScoreLoop(i, j, max_, matrix_) ==
    IF ~(i < Len(matrix_)) THEN max_
    ELSE IF ~(j < Len(matrix_[i + 1])) THEN findMaxScenicScoreLoop(i + 1, 0, max_, matrix_)
    ELSE LET scenicScore == getScenicScore(i, j, matrix_)
         IN  findMaxScenicScoreLoop(i, j + 1,
                                    IF scenicScore > max_ THEN scenicScore ELSE max_,
                                    matrix_)

findMaxScenicScore(matrix_) == findMaxScenicScoreLoop(0, 0, 0, matrix_)

(***************************************************************************)
(* day-08: the run.  Part 1 reduces the matrix with countVisible, part 2   *)
(* (the main of the file) with findMaxScenicScore.                         *)
(***************************************************************************)
GridInit ==
    /\ \/ \E rc \in Shapes : matrix \in MatricesOf(rc)
       \/ matrix = SampleMatrix
    /\ count = 0
    /\ max = 0
    /\ gpc = "parsed"

CountVisible ==
    /\ gpc = "parsed"
    /\ count' = countVisible(matrix)
    /\ gpc' = "counted"
    /\ UNCHANGED <<matrix, max, ropeVars, tailVars, fsVars, stackVars, callVars>>

FindMaxScenicScore ==
    /\ gpc = "parsed"
    /\ max' = findMaxScenicScore(matrix)
    /\ gpc' = "scored"
    /\ UNCHANGED <<matrix, count, ropeVars, tailVars, fsVars, stackVars, callVars>>

GridNext ==
    \/ CountVisible
    \/ FindMaxScenicScore

InitGrid == RopeIdle /\ TailIdle /\ GridInit /\ FsIdle /\ StackIdle /\ CallIdle
SpecGrid == InitGrid /\ [][GridNext]_vars

\* the lengths of the lines of an input whose lines are not equally long
RECURSIVE SumOfLengths(_)
SumOfLengths(lengths) ==
    IF lengths = <<>> THEN 0 ELSE Head(lengths) + SumOfLengths(Tail(lengths))

RaggedShapes ==
    {lengths \in UNION {[1..n -> 1..MaxRaggedCells] : n \in 2..MaxRaggedCells} :
        /\ SumOfLengths(lengths) <= MaxRaggedCells
        /\ \E r \in 1..Len(lengths) : lengths[r] # lengths[1]}

\* parseMatrix on lines of these lengths, the digits taken from one table
RaggedMatrix(lengths, digits) ==
    [r \in 1..Len(lengths) |->
        [c \in 1..lengths[r] |-> digits[SumOfLengths(SubSeq(lengths, 1, r - 1)) + c]]]

RaggedInit ==
    /\ \E lengths \in RaggedShapes :
          \E digits \in [1..SumOfLengths(lengths) -> 0..MaxHeight] :
              matrix = RaggedMatrix(lengths, digits)
    /\ count = 0
    /\ max = 0
    /\ gpc = "parsed"

InitRagged == RopeIdle /\ TailIdle /\ RaggedInit /\ FsIdle /\ StackIdle /\ CallIdle
SpecRagged == InitRagged /\ [][GridNext]_vars

(***************************************************************************)
(* Properties of the grid scanner, stated on the coordinates of the matrix.*)
(***************************************************************************)
Rows == Len(matrix)
Cols == Len(matrix[1])
Cells == (0..(Rows - 1)) \X (0..(Cols - 1))
Height(i, j) == matrix[i + 1][j + 1]

OnBoundary(i, j) == i = 0 \/ i = Rows - 1 \/ j = 0 \/ j = Cols - 1
Interior(i, j) == ~OnBoundary(i, j)

GridDirections == {"top", "left", "right", "bottom"}

\* number of cells between cell (i, j) and the grid edge in a direction
Reach(dir, i, j) ==
    CASE dir = "top" -> i
      [] dir = "left" -> j
      [] dir = "right" -> Cols - 1 - j
      [] dir = "bottom" -> Rows - 1 - i

\* height of the k-th cell from (i, j) going outward, k = 1 the neighbour
Outward(dir, i, j, k) ==
    CASE dir = "top" -> Height(i - k, j)
      [] dir = "left" -> Height(i, j - k)
      [] dir = "right" -> Height(i, j + k)
      [] dir = "bottom" -> Height(i + k, j)

AllLower(dir, i, j) ==
    \A k \in 1..Reach(dir, i, j) : Outward(dir, i, j, k) < Height(i, j)

\* the side the code hands to the scan of a direction
SideOf(dir, i, j) ==
    CASE dir = "top" -> getTop(i, j, matrix)
      [] dir = "left" -> getLeft(i, j, matrix)
      [] dir = "right" -> getRight(i, j, matrix)
      [] dir = "bottom" -> getBottom(i, j, matrix)

\* C6: isVisible(i, j, matrix) is true iff the cell is on the first/last row
\* or column, or in at least one of the four directions every cell between it
\* and the edge is strictly lower; every boundary cell is visible.
C6_Visibility ==
    gpc = "counted" =>
        \A ij \in Cells :
            /\ isVisible(ij[1], ij[2], matrix) =
                  (\/ OnBoundary(ij[1], ij[2])
                   \/ \E dir \in GridDirections : AllLower(dir, ij[1], ij[2]))
            /\ OnBoundary(ij[1], ij[2]) => isVisible(ij[1], ij[2], matrix)

\* a counted matrix with a hidden interior cell and a visible interior cell
C6_Witness ==
    /\ gpc = "counted"
    /\ \E ij \in Cells : Interior(ij[1], ij[2]) /\ isVisible(ij[1], ij[2], matrix)
    /\ \E ij \in Cells : Interior(ij[1], ij[2]) /\ ~isVisible(ij[1], ij[2], matrix)
    /\ count < Rows * Cols

\* positions, counted from the neighbour, of the cells at least as high
Blockers(dir, i, j) ==
    {k \in 1..Reach(dir, i, j) : Outward(dir, i, j, k) >= Height(i, j)}

SetMin(S) == CHOOSE m \in S : \A n \in S : m <= n

ViewingDistance(dir, i, j) ==
    LET blockers == Blockers(dir, i, j)
    IN  IF blockers = {} THEN Reach(dir, i, j) ELSE SetMin(blockers)

\* C7: getViewingDistanceFromSide on the heights from the nearest neighbour
\* outward returns the 1-based position of the first cell at least as high
\* (the blocker is counted), or the number of cells up to the edge when there
\* is none; it is 0 exactly when the cell touches the edge in that direction.
C7_ViewingDistance ==
    gpc = "scored" =>
        \A ij \in Cells : \A dir \in GridDirections :
            LET d == getViewingDistanceFromSide(Height(ij[1], ij[2]),
                                                SideOf(dir, ij[1], ij[2]))
            IN  /\ d = ViewingDistance(dir, ij[1], ij[2])
                /\ (d = 0) = (Reach(dir, ij[1], ij[2]) = 0)

\* a scored matrix with a scan stopped by a blocker before the edge, away
\* from the neighbour, and a scan that reaches the edge past two cells
C7_Witness ==
    /\ gpc = "scored"
    /\ \E ij \in Cells : \E dir \in GridDirections :
          LET d == getViewingDistanceFromSide(Height(ij[1], ij[2]),
                                              SideOf(dir, ij[1], ij[2]))
          IN  d >= 2 /\ d < Reach(dir, ij[1], ij[2])
    /\ \E ij \in Cells : \E dir \in GridDirections :
          /\ Blockers(dir, ij[1], ij[2]) = {}
          /\ getViewingDistanceFromSide(Height(ij[1], ij[2]),
                                        SideOf(dir, ij[1], ij[2])) >= 2

ScenicScore(i, j) ==
    ViewingDistance("top", i, j) * ViewingDistance("left", i, j)
        * ViewingDistance("right", i, j) * ViewingDistance("bottom", i, j)

\* C8: getScenicScore is the product of the four directional viewing
\* distances, so 0 on the boundary; findMaxScenicScore returns the maximum of
\* getScenicScore over all cells.
C8_ScenicScore ==
    gpc = "scored" =>
        LET score == [ij \in Cells |-> getScenicScore(ij[1], ij[2], matrix)]
        IN  /\ \A ij \in Cells :
                  /\ score[ij] = ScenicScore(ij[1], ij[2])
                  /\ OnBoundary(ij[1], ij[2]) => score[ij] = 0
            /\ \E ij \in Cells : max = score[ij]
            /\ \A ij \in Cells : max >= score[ij]

\* a scored matrix whose best cell sees more than one tree in some direction
C8_Witness ==
    /\ gpc = "scored"
    /\ max > 1
    /\ \E ij \in Cells : Interior(ij[1], ij[2]) /\ ScenicScore(ij[1], ij[2]) < max

\* C9: for the sample matrix countVisible returns 21.
C9_SampleVisibleCount ==
    (gpc = "counted" /\ matrix = SampleMatrix) => count = 21

\* the sample matrix has been counted
C9_Witness ==
    gpc = "counted" /\ matrix = SampleMatrix /\ count > 16

\* C10: for the sample matrix findMaxScenicScore returns 8 and the cell at
\* row 3, column 2 (height 5) has scenic score 8.
C10_SampleScenicScore ==
    (gpc = "scored" /\ matrix = SampleMatrix) =>
        /\ max = 8
        /\ matrix[3 + 1][2 + 1] = 5
        /\ getScenicScore(3, 2, matrix) = 8

\* the sample matrix has been scored
C10_Witness ==
    gpc = "scored" /\ matrix = SampleMatrix /\ max > 0

(***************************************************************************)
(* day-07 (second half of day-02.js): the terminal session.  A line is     *)
(* kept as what the code reads from it: whether it starts with "$", the    *)
(* command word and argument of commandRegex, or the stat and name of      *)
(* parseFileNode.                                                          *)
(***************************************************************************)
\* the value undefined where a node is expected (root.parent, a missing key)
Undefined == 0
\* state.root is the first node object main creates
Root == 1

CdLine(arg) == [dollar |-> TRUE, command |-> "cd", arg |-> arg]
LsLine == [dollar |-> TRUE, command |-> "ls"]
\* a "$" line whose command word is neither cd nor ls
OtherLine == [dollar |-> TRUE, command |-> "pwd"]
DirLine(name) == [dollar |-> FALSE, dir |-> TRUE, name |-> name]
FileLine(size, name) == [dollar |-> FALSE, dir |-> FALSE, size |-> size, name |-> name]

\* the mock terminal session of the doc comment
SampleSession ==
    << CdLine("/"), LsLine,
       DirLine("a"), FileLine(14848514, "b.txt"), FileLine(8504156, "c.dat"), DirLine("d"),
       CdLine("a"), LsLine,
       DirLine("e"), FileLine(29116, "f"), FileLine(2557, "g"), FileLine(62596, "h.lst"),
       CdLine("e"), LsLine,
       FileLine(584, "i"),
       CdLine(".."), CdLine(".."), CdLine("d"), LsLine,
       FileLine(4060174, "j"), FileLine(8033020, "d.log"), FileLine(5626152, "d.ext"),
       FileLine(7214296, "k") >>

\* names and file sizes of a freely chosen session
Names == {"a", "b"}
FileSizes == {60000, 45000000}

FreeLines ==
    {CdLine(arg) : arg \in {"/", ".."} \cup Names}
        \cup {LsLine, OtherLine}
        \cup {DirLine(name) : name \in Names}
        \cup {FileLine(sz[1], sz[2]) : sz \in FileSizes \X Names}

\* the lines that can come next in the input text
Upcoming ==
    IF session = "sample"
      THEN IF index < Len(SampleSession) THEN {SampleSession[index + 1]} ELSE {}
      ELSE IF index < MaxLines THEN FreeLines ELSE {}

\* index < lines.length fails: the input text can end here
InputEnds ==
    IF session = "sample" THEN index = Len(SampleSession) ELSE index >= 1

\* main: const root = { name: '/', type: 'directory' }
RootNode ==
    [name |-> "/", type |-> "directory", sized |-> FALSE, size |-> 0,
     parent |-> Undefined, children |-> <<>>]

\* parseFileNode, with the parent parseShellCommands sets right after; a node
\* is created without children (the Map is made with the first child)
parseFileNode(line, parent) ==
    [name |-> line.name,
     type |-> IF line.dir THEN "directory" ELSE "file",
     sized |-> ~line.dir,
     size |-> IF line.dir THEN 0 ELSE line.size,
     parent |-> parent,
     children |-> <<>>]

\* Map#get that returns the first child whatever the key
MapGetFirst(ns, kids, name) ==
    IF kids = <<>> THEN Undefined ELSE kids[1]

\* Map#get on a children Map kept in insertion order: the node or undefined
MapGet(ns, kids, name) ==
    IF \E k \in 1..Len(kids) : ns[kids[k]].name = name
      THEN kids[CHOOSE k \in 1..Len(kids) : ns[kids[k]].name = name]
      ELSE Undefined

\* Map#set that adds an entry also for a key the Map has
MapSetAppend(ns, kids, name, id) == Append(kids, id)

\* Map#set: an existing key keeps its place and gets the new node
MapSet(ns, kids, name, id) ==
    IF \E k \in 1..Len(kids) : ns[kids[k]].name = name
      THEN [k \in 1..Len(kids) |-> IF ns[kids[k]].name = name THEN id ELSE kids[k]]
      ELSE Append(kids, id)

FsInit ==
    /\ nodes = <<RootNode>>
    /\ cwd = Root
    /\ index = 0
    /\ session \in {"sample", "any"}
    /\ fpc = "command"
    /\ smallDirs = <<>>
    /\ bigDirs = <<>>
    /\ fsOutput = NoOutput

\* where `cd arg` leaves state.cwd; Crash when the code throws a TypeError
CdTarget(arg) ==
    IF arg = "/" THEN [crash |-> FALSE, node |-> Root]
    ELSE IF cwd = Undefined THEN [crash |-> TRUE]
    ELSE IF arg = ".." THEN [crash |-> FALSE, node |-> nodes[cwd].parent]
    ELSE IF nodes[cwd].children = <<>> THEN [crash |-> TRUE]
    ELSE [crash |-> FALSE, node |-> MapGet(nodes, nodes[cwd].children, arg)]

\* parseShellCommands, case 'cd'
ChangeDirectory(line) ==
    /\ fpc = "command"
    /\ line.dollar
    /\ line.command = "cd"
    /\ LET target == CdTarget(line.arg)
       IN  IF target.crash
             THEN /\ fpc' = "crashed"
                  /\ cwd' = cwd
             ELSE /\ fpc' = "command"
                  /\ cwd' = target.node
    /\ index' = index + 1
    /\ UNCHANGED <<nodes, session, smallDirs, bigDirs, fsOutput,
                   ropeVars, tailVars, gridVars, stackVars, callVars>>

\* parseShellCommands, case 'ls': the inner loop is entered
List(line) ==
    /\ fpc = "command"
    /\ line.dollar
    /\ line.command = "ls"
    /\ fpc' = "slurp"
    /\ index' = index + 1
    /\ UNCHANGED <<nodes, cwd, session, smallDirs, bigDirs, fsOutput,
                   ropeVars, tailVars, gridVars, stackVars, callVars>>

\* the body of the inner loop of 'ls': one line is attached to cwd
Slurp(line) ==
    /\ fpc = "slurp"
    /\ ~line.dollar
    /\ IF cwd = Undefined
         THEN /\ fpc' = "crashed"
              /\ nodes' = nodes
         ELSE LET id == Len(nodes) + 1
                  node == parseFileNode(line, cwd)
              IN  /\ nodes' = Append([nodes EXCEPT ![cwd].children =
                                         MapSet(nodes, @, node.name, id)], node)
                  /\ fpc' = "slurp"
    /\ index' = index + 1
    /\ UNCHANGED <<cwd, session, smallDirs, bigDirs, fsOutput,
                   ropeVars, tailVars, gridVars, stackVars, callVars>>

\* the inner loop of 'ls' ends at a line starting with "$" or at the end
EndOfListing ==
    /\ fpc = "slurp"
    /\ InputEnds \/ \E line \in Upcoming : line.dollar
    /\ fpc' = "command"
    /\ UNCHANGED <<nodes, cwd, index, session, smallDirs, bigDirs, fsOutput,
                   ropeVars, tailVars, gridVars, stackVars, callVars>>

\* commandRegex.exec gives null for a line without "$ word": the
\* destructuring assignment throws a TypeError
Malformed(line) ==
    /\ fpc = "command"
    /\ ~line.dollar
    /\ fpc' = "crashed"
    /\ UNCHANGED <<nodes, cwd, index, session, smallDirs, bigDirs, fsOutput,
                   ropeVars, tailVars, gridVars, stackVars, callVars>>

\* the switch has no case for the command word: the body of the main loop
\* ends with index as it was
NoCase(line) ==
    /\ fpc = "command"
    /\ line.dollar
    /\ line.command \notin {"cd", "ls"}
    /\ fpc' = "again"
    /\ UNCHANGED <<nodes, cwd, index, session, smallDirs, bigDirs, fsOutput,
                   ropeVars, tailVars, gridVars, stackVars, callVars>>

\* index < lines.length holds as before and lines[index] is the line it was
LoopTest ==
    /\ fpc = "again"
    /\ fpc' = "switch"
    /\ UNCHANGED <<nodes, cwd, index, session, smallDirs, bigDirs, fsOutput,
                   ropeVars, tailVars, gridVars, stackVars, callVars>>

\* the same line is matched and the switch has no case for it, once more
NoCaseAgain ==
    /\ fpc = "switch"
    /\ fpc' = "again"
    /\ UNCHANGED <<nodes, cwd, index, session, smallDirs, bigDirs, fsOutput,
                   ropeVars, tailVars, gridVars, stackVars, callVars>>

\* the main loop of parseShellCommands ends
EndOfSession ==
    /\ fpc = "command"
    /\ InputEnds
    /\ fpc' = "parsed"
    /\ UNCHANGED <<nodes, cwd, index, session, smallDirs, bigDirs, fsOutput,
                   ropeVars, tailVars, gridVars, stackVars, callVars>>

(***************************************************************************)
(* day-07: aggregation.  findSmallDirs mutates the nodes it visits, so it  *)
(* takes the node objects and returns them next to its result.             *)
(***************************************************************************)
\* main: findSmallDirs(100000, state.root)
SmallBound == 100000
\* main: 30000000 - (70000000 - state.root.size)
TargetFree == 30000000
DiskCapacity == 70000000

\* the reduce of findSmallDirs adding the sizes of the files only
RECURSIVE sumFileSizes(_, _, _)
sumFileSizes(ns, kids, sum) ==
    IF kids = <<>> THEN sum
    ELSE sumFileSizes(ns, Tail(kids),
                      IF ns[Head(kids)].type = "file" THEN sum + ns[Head(kids)].size ELSE sum)

\* the reduce of findSmallDirs: (sum, c) => sum + c.size, from 0
RECURSIVE sumChildSizes(_, _, _)
sumChildSizes(ns, kids, sum) ==
    IF kids = <<>> THEN sum
    ELSE sumChildSizes(ns, Tail(kids), sum + ns[Head(kids)].size)

\* a size computation that adds the children's sizes to the size cached
sizeOfAccumulated(ns, node) ==
    (IF ns[node].sized THEN ns[node].size ELSE 0)
        + sumChildSizes(ns, ns[node].children, 0)

\* node.size ?? (node.children ? <the reduce> : 0)
sizeOf(ns, node) ==
    IF ns[node].sized THEN ns[node].size
    ELSE sumChildSizes(ns, ns[node].children, 0)

RECURSIVE findSmallDirs(_, _, _, _), flatMapChildren(_, _, _, _)

\* Array.from(node.children.values()).flatMap(child => findSmallDirs(...))
flatMapChildren(sizeUpperBound, kids, big, acc) ==
    IF kids = <<>> THEN acc
    ELSE LET r == findSmallDirs(sizeUpperBound, Head(kids), big, acc.nodes)
         IN  flatMapChildren(sizeUpperBound, Tail(kids), big,
                             [nodes |-> r.nodes, smallDirs |-> acc.smallDirs \o r.smallDirs])

findSmallDirs(sizeUpperBound, node, big, ns) ==
    IF ns[node].type # "directory" THEN [nodes |-> ns, smallDirs |-> <<>>]
    ELSE LET below == flatMapChildren(sizeUpperBound, ns[node].children, big,
                                      [nodes |-> ns, smallDirs |-> <<>>])
             size == sizeOf(below.nodes, node)
             sizedNodes == [below.nodes EXCEPT ![node].sized = TRUE, ![node].size = size]
             keep == IF big THEN size >= sizeUpperBound ELSE size <= sizeUpperBound
         IN  [nodes |-> sizedNodes,
              smallDirs |-> IF keep THEN Append(below.smallDirs, node)
                                    ELSE below.smallDirs]

\* bigDirs.sort((a, b) => a.size - b.size).shift().size
RECURSIVE smallestSize(_, _, _)
smallestSize(ns, dirs, best) ==
    IF dirs = <<>> THEN best
    ELSE smallestSize(ns, Tail(dirs),
                      IF ns[Head(dirs)].size < best THEN ns[Head(dirs)].size ELSE best)

\* main: const smallDirs = findSmallDirs(100000, state.root)
FindSmall ==
    /\ fpc = "parsed"
    /\ LET r == findSmallDirs(SmallBound, Root, FALSE, nodes)
       IN  /\ nodes' = r.nodes
           /\ smallDirs' = r.smallDirs
    /\ fpc' = "sized"
    /\ UNCHANGED <<cwd, index, session, bigDirs, fsOutput,
                   ropeVars, tailVars, gridVars, stackVars, callVars>>

\* the bound of the second call, read from root.size when the call is made
BigBound(ns) == TargetFree - (DiskCapacity - ns[Root].size)

\* main: const bigDirs = findSmallDirs(..., state.root, { big: true }), and
\* the size of the smallest of them is printed
FindBig ==
    /\ fpc = "sized"
    /\ LET r == findSmallDirs(BigBound(nodes), Root, TRUE, nodes)
       IN  /\ nodes' = r.nodes
           /\ bigDirs' = r.smallDirs
           /\ fsOutput' = Printed(smallestSize(r.nodes, Tail(r.smallDirs),
                                               r.nodes[Head(r.smallDirs)].size))
    /\ fpc' = "done"
    /\ UNCHANGED <<cwd, index, session, smallDirs,
                   ropeVars, tailVars, gridVars, stackVars, callVars>>

FsNext ==
    \/ \E line \in Upcoming : ChangeDirectory(line)
    \/ \E line \in Upcoming : List(line)
    \/ \E line \in Upcoming : Slurp(line)
    \/ EndOfListing
    \/ \E line \in Upcoming : Malformed(line)
    \/ \E line \in Upcoming : NoCase(line)
    \/ LoopTest
    \/ NoCaseAgain
    \/ EndOfSession
    \/ FindSmall
    \/ FindBig

InitFs == RopeIdle /\ TailIdle /\ GridIdle /\ FsInit /\ StackIdle /\ CallIdle
SpecFs == InitFs /\ [][FsNext]_vars
\* the program is one synchronous thread that keeps running while it can
SpecFsFair == SpecFs /\ WF_vars(FsNext)

(***************************************************************************)
(* Properties of the filesystem replay and aggregation.                    *)
(***************************************************************************)
SeqRange(seq) == {seq[k] : k \in 1..Len(seq)}

AllLines == FreeLines \cup SeqRange(SampleSession)

ChildrenOf(ns, n) == SeqRange(ns[n].children)

Listed(n, name) == \E c \in ChildrenOf(nodes, n) : nodes[c].name = name

\* C11: after `cd /` the cursor is the root; after `cd ..` from a non-root
\* directory it is the node holding that directory as a child; after
\* `cd <name>` of a listed name it is that child; `ls` attaches every
\* following line up to the next "$" line as a child of the cursor with its
\* kind and size, and leaves the cursor unchanged.
C11_Replay ==
    [][ \A line \in AllLines :
          /\ (ChangeDirectory(line) /\ line.arg = "/") => cwd' = Root
          /\ (ChangeDirectory(line) /\ line.arg = ".."
                 /\ cwd # Undefined /\ cwd # Root) =>
                (/\ fpc' = "command"
                 /\ cwd' # Undefined
                 /\ cwd \in ChildrenOf(nodes, cwd'))
          /\ (ChangeDirectory(line) /\ line.arg \notin {"/", ".."}
                 /\ cwd # Undefined /\ Listed(cwd, line.arg)) =>
                (/\ fpc' = "command"
                 /\ cwd' \in ChildrenOf(nodes, cwd)
                 /\ nodes[cwd'].name = line.arg)
          /\ List(line) => (cwd' = cwd /\ nodes' = nodes /\ fpc' = "slurp")
          /\ (Slurp(line) /\ cwd # Undefined) =>
                (/\ cwd' = cwd
                 /\ fpc' = "slurp"
                 /\ Len(nodes') = Len(nodes) + 1
                 /\ \E c \in ChildrenOf(nodes', cwd) :
                       /\ c = Len(nodes')
                       /\ nodes'[c].name = line.name
                       /\ nodes'[c].type = (IF line.dir THEN "directory" ELSE "file")
                       /\ (~line.dir) => (nodes'[c].sized /\ nodes'[c].size = line.size)
                       /\ nodes'[c].parent = cwd)
          /\ (fpc = "slurp" /\ fpc' = "command") => (index' = index /\ nodes' = nodes)
      ]_vars

\* the cursor has entered a listed directory below the root and listed it
C11_Witness ==
    /\ fpc = "command"
    /\ cwd # Undefined
    /\ cwd # Root
    /\ nodes[cwd].parent = Root
    /\ nodes[cwd].type = "directory"
    /\ nodes[cwd].children # <<>>

\* C12: a `cd ..` issued while the cursor is the root fails at that command;
\* the run aborts with no result, whatever commands follow it.
C12_CdUpAtRootFails ==
    [][ (ChangeDirectory(CdLine("..")) /\ cwd = Root) => fpc' = "crashed" ]_vars

\* C13: a `cd <name>` naming a child that does not exist in the cursor
\* directory, listed or not, fails at that command; the run aborts with no
\* result, whatever commands follow it.
C13_CdMissingChildFails ==
    [][ \A name \in Names :
          (ChangeDirectory(CdLine(name)) /\ cwd # Undefined /\ ~Listed(cwd, name))
              => fpc' = "crashed" ]_vars

\* nodes reachable from n through children maps, n included
RECURSIVE Subtree(_, _)
Subtree(ns, n) ==
    {n} \cup UNION {Subtree(ns, c) : c \in ChildrenOf(ns, n)}

RECURSIVE SumOfSizes(_, _)
SumOfSizes(ns, S) ==
    IF S = {} THEN 0
    ELSE LET n == CHOOSE m \in S : TRUE
         IN  ns[n].size + SumOfSizes(ns, S \ {n})

FilesBelow(ns, n) == {m \in Subtree(ns, n) : ns[m].type = "file"}
DirsBelow(ns, n) == {m \in Subtree(ns, n) : ns[m].type = "directory"}

\* C14: after findSmallDirs has run on the root, every directory's size is
\* the sum of the sizes of all files in its subtree (0 without children).
C14_DirectorySizes ==
    fpc \in {"sized", "done"} =>
        \A d \in DirsBelow(nodes, Root) :
            /\ nodes[d].sized
            /\ nodes[d].size = SumOfSizes(nodes, FilesBelow(nodes, d))

\* C15: for the sample session the root's size is 48381165, the sizes of the
\* directories of size <= 100000 sum to 95437, and the printed answer, the
\* smallest directory of size >= 8381165, is 24933642.
C15_SampleSession ==
    (fpc = "done" /\ session = "sample") =>
        /\ nodes[Root].size = 48381165
        /\ SumOfSizes(nodes, SeqRange(smallDirs)) = 95437
        /\ BigBound(nodes) = 8381165
        /\ fsOutput = Printed(24933642)

\* the sample session has been replayed and reduced
C15_Witness ==
    /\ fpc = "done"
    /\ session = "sample"
    /\ index = Len(SampleSession)
    /\ Len(smallDirs) = 2

SetMin2(S) == CHOOSE m \in S : \A n \in S : m <= n

\* C16: the printed value is the minimum size among the directories of size
\* >= T2 = 30000000 - (70000000 - root.size); without the big flag
\* findSmallDirs returns exactly the directories of size <= the bound, with
\* it exactly those of size >= the bound.
C16_Reducer ==
    fpc = "done" =>
        LET dirs == DirsBelow(nodes, Root)
            T2 == TargetFree - (DiskCapacity - nodes[Root].size)
        IN  /\ SeqRange(smallDirs) = {d \in dirs : nodes[d].sized /\ nodes[d].size <= SmallBound}
            /\ SeqRange(bigDirs) = {d \in dirs : nodes[d].sized /\ nodes[d].size >= T2}
            /\ \A d \in dirs : nodes[d].sized
            /\ fsOutput = Printed(SetMin2({nodes[d].size : d \in SeqRange(bigDirs)}))

(***************************************************************************)
(* day-05 (part_003): the crate stacks.  A line of the diagram is kept as  *)
(* its 4-character columns: the crate label of a column, or " " where the  *)
(* column does not start with "[".                                         *)
(***************************************************************************)
\* a hole of the stacks Array (stacks[k] is undefined), and a Stack object
NoStack == [present |-> FALSE]
Stack(elements) == [present |-> TRUE, data |-> elements]

\* what Array#pop and Stack#peek return on an empty array
UndefinedElement == "undefined"

NoCrate == " "

\* the diagram of the doc comment, top line first, without the line of names
SampleDiagram ==
    << <<" ", "D", " ">>,
       <<"N", "C", " ">>,
       <<"Z", "M", "P">> >>

Move(n, from, to) == [numToMove |-> n, from |-> from, to |-> to]

SampleProcedure ==
    << Move(1, 2, 1), Move(3, 1, 3), Move(2, 2, 1), Move(1, 1, 2) >>

Letters ==
    << "A", "B", "C", "D", "E", "F", "G", "H", "I", "J", "K", "L", "M",
       "N", "O", "P", "Q", "R", "S", "T", "U", "V", "W", "X", "Y", "Z" >>

\* a diagram of n columns with h[c] crates in column c, every crate labelled
\* differently, lines padded to the full width
DiagramOf(n, h) ==
    LET top == IF n = 0 THEN 0
               ELSE CHOOSE t \in 0..MaxDepth :
                        (\A c \in 1..n : h[c] <= t) /\ (t = 0 \/ \E c \in 1..n : h[c] = t)
    IN  [l \in 1..top |->
            [c \in 1..n |->
                IF top + 1 - l <= h[c]
                  THEN Letters[(c - 1) * MaxDepth + (top + 1 - l)]
                  ELSE NoCrate]]

FreeDiagrams ==
    UNION {{DiagramOf(n, h) : h \in [1..n -> 0..MaxDepth]} : n \in 1..MaxStacks}

FreeMoves ==
    {Move(n, from, to) : n \in 1..MaxCount, from \in 1..MaxStacks, to \in 1..MaxStacks}

\* stacks[stackIndex].push(label), the Stack being created in a hole first;
\* assigning beyond the end of the Array leaves holes in between
pushCrate(st, k, label) ==
    LET grown == [j \in 1..(IF k > Len(st) THEN k ELSE Len(st)) |->
                     IF j <= Len(st) THEN st[j] ELSE NoStack]
        old == IF grown[k].present THEN grown[k].data ELSE <<>>
    IN  [grown EXCEPT ![k] = Stack(Append(old, label))]

\* the inner loop of parseStacks over one line, from column k on
RECURSIVE parseStackLine(_, _, _)
parseStackLine(st, line, k) ==
    IF k > Len(line) THEN st
    ELSE parseStackLine(IF line[k] # NoCrate THEN pushCrate(st, k, line[k]) ELSE st,
                        line, k + 1)

\* the outer loop of parseStacks over the lines it is given, in that order
RECURSIVE parseStackLines(_, _)
parseStackLines(st, lines) ==
    IF lines = <<>> THEN st
    ELSE parseStackLines(parseStackLine(st, Head(lines), 1), Tail(lines))

\* parseStacks that reads the diagram top line first
parseStacksTopDown(lines) == parseStackLines(<<>>, lines)

parseStacks(lines) == parseStackLines(<<>>, Reverse(lines))

\* stacks[k - 1] of the code for a 1-based k: undefined outside the Array
StackAt(st, k) == IF k >= 1 /\ k <= Len(st) THEN st[k] ELSE NoStack

\* 2a: pop numToMove elements off the "from" stack into the temp stack;
\* calling pop on undefined throws
RECURSIVE popLoop(_, _, _, _, _)
popLoop(i, numToMove, from, st, tempStack) ==
    IF ~(i < numToMove) THEN [crash |-> FALSE, stacks |-> st, tempStack |-> tempStack]
    ELSE IF ~StackAt(st, from).present THEN [crash |-> TRUE, stacks |-> st]
    ELSE LET data == st[from].data
         IN  IF data = <<>>
               THEN popLoop(i + 1, numToMove, from, st,
                            Append(tempStack, UndefinedElement))
               ELSE popLoop(i + 1, numToMove, from,
                            [st EXCEPT ![from] = Stack(SubSeq(data, 1, Len(data) - 1))],
                            Append(tempStack, data[Len(data)]))

\* Stack#peek
peek(data) == IF data = <<>> THEN UndefinedElement ELSE data[Len(data)]

\* 2b that takes the elements from the bottom of the temp stack
RECURSIVE pushLoopFifo(_, _, _)
pushLoopFifo(tempStack, to, st) ==
    IF tempStack = <<>> \/ Head(tempStack) = UndefinedElement
      THEN [crash |-> FALSE, stacks |-> st]
    ELSE IF ~StackAt(st, to).present THEN [crash |-> TRUE, stacks |-> st]
    ELSE pushLoopFifo(Tail(tempStack), to,
                      [st EXCEPT ![to] = Stack(Append(st[to].data, Head(tempStack)))])

\* 2b: while the temp stack has a (truthy) top, pop it onto the "to" stack
RECURSIVE pushLoop(_, _, _)
pushLoop(tempStack, to, st) ==
    IF peek(tempStack) = UndefinedElement THEN [crash |-> FALSE, stacks |-> st]
    ELSE IF ~StackAt(st, to).present THEN [crash |-> TRUE, stacks |-> st]
    ELSE pushLoop(SubSeq(tempStack, 1, Len(tempStack) - 1), to,
                  [st EXCEPT ![to] = Stack(Append(st[to].data, peek(tempStack)))])

performInstruction(ins, st) ==
    LET popped == popLoop(0, ins.numToMove, ins.from, st, <<>>)
    IN  IF popped.crash THEN [crash |-> TRUE, stacks |-> popped.stacks]
        ELSE pushLoop(popped.tempStack, ins.to, popped.stacks)

\* stacks.map(stack => stack.peek()).join(''): holes and undefined give ''
RECURSIVE joinTops(_, _)
joinTops(st, k) ==
    IF k > Len(st) THEN ""
    ELSE (IF st[k].present /\ st[k].data # <<>> THEN peek(st[k].data) ELSE "")
            \o joinTops(st, k + 1)

StackInit ==
    /\ \/ /\ crates = "sample"
          /\ stacks = parseStacks(SampleDiagram)
       \/ /\ crates = "any"
          /\ \E diagram \in FreeDiagrams : stacks = parseStacks(diagram)
    /\ moves = 0
    /\ spc = "run"
    /\ stackOutput = NoOutput

\* the instructions that can come next in the input text
UpcomingMoves ==
    IF crates = "sample"
      THEN IF moves < Len(SampleProcedure) THEN {SampleProcedure[moves + 1]} ELSE {}
      ELSE IF moves < MaxMoves THEN FreeMoves ELSE {}

ProcedureEnds ==
    IF crates = "sample" THEN moves = Len(SampleProcedure) ELSE TRUE

\* performInstructions: one call of performInstruction
Perform(ins) ==
    /\ spc = "run"
    /\ LET r == performInstruction(ins, stacks)
       IN  /\ stacks' = r.stacks
           /\ spc' = IF r.crash THEN "crashed" ELSE "run"
    /\ moves' = moves + 1
    /\ UNCHANGED <<crates, stackOutput, ropeVars, tailVars, gridVars, fsVars, callVars>>

\* main prints the tops
PrintTops ==
    /\ spc = "run"
    /\ ProcedureEnds
    /\ stackOutput' = Printed(joinTops(stacks, 1))
    /\ spc' = "done"
    /\ UNCHANGED <<stacks, moves, crates, ropeVars, tailVars, gridVars, fsVars, callVars>>

StackNext ==
    \/ \E ins \in UpcomingMoves : Perform(ins)
    \/ PrintTops

InitStacks == RopeIdle /\ TailIdle /\ GridIdle /\ FsIdle /\ StackInit /\ CallIdle
SpecStacks == InitStacks /\ [][StackNext]_vars

(***************************************************************************)
(* Properties of the crate stacks.                                         *)
(***************************************************************************)
Depth(st, k) == Len(st[k].data)

TopBlock(data, n) == SubSeq(data, Len(data) - n + 1, Len(data))

\* the instruction moves between two different existing stacks and asks for
\* no more crates than the source holds
WellFormedMove(ins) ==
    /\ ins.from # ins.to
    /\ StackAt(stacks, ins.from).present
    /\ StackAt(stacks, ins.to).present
    /\ ins.numToMove <= Depth(stacks, ins.from)

\* the top numToMove crates left "from" and sit on "to" in the same order,
\* everything below them and every other stack being as before
MovedInOrder(ins) ==
    /\ spc' = "run"
    /\ Len(stacks') = Len(stacks)
    /\ stacks'[ins.from].data =
          SubSeq(stacks[ins.from].data, 1, Depth(stacks, ins.from) - ins.numToMove)
    /\ stacks'[ins.to].data =
          stacks[ins.to].data \o TopBlock(stacks[ins.from].data, ins.numToMove)
    /\ \A k \in 1..Len(stacks) : k \notin {ins.from, ins.to} => stacks'[k] = stacks[k]

\* C17: an instruction (k, i, j) with i # j and k no more than the depth of
\* stack i takes the top k labels off stack i and puts them on stack j in
\* the bottom-to-top order they had; nothing else changes.
C17_BulkMove ==
    [][\A ins \in FreeMoves :
          (Perform(ins) /\ WellFormedMove(ins)) => MovedInOrder(ins)]_vars

\* a block of two crates or more has been moved onto a stack
C17_Witness ==
    /\ crates = "any"
    /\ spc = "run"
    /\ moves >= 1
    /\ \E k \in 1..Len(stacks) :
          /\ stacks[k].present
          /\ \E a, b \in 1..Len(stacks[k].data) :
                /\ a + 1 = b
                /\ \E c \in 1..MaxStacks :
                      /\ c # k
                      /\ stacks[k].data[a] = Letters[(c - 1) * MaxDepth + 1]
                      /\ stacks[k].data[b] = Letters[(c - 1) * MaxDepth + 2]

\* C18: the sample stacks [Z,N], [M,C,D], [P] under the four sample
\* instructions end with tops that concatenate to MCD.
C18_SampleTops ==
    (crates = "sample" /\ spc = "done") => stackOutput = Printed("MCD")

C18_Witness ==
    /\ crates = "sample"
    /\ spc = "done"
    /\ moves = Len(SampleProcedure)
    /\ stackOutput = Printed("MCD")

\* C19: the program has a single-crate mode in which the sample stacks and
\* instructions end with tops that concatenate to CMZ.  The program has one
\* way to run, so this is stated of that run.
C19_SingleCrateSample ==
    (crates = "sample" /\ spc = "done") => stackOutput = Printed("CMZ")

\* C20: an instruction asking for more crates than its source stack holds
\* aborts the run with an error, and nothing is printed.
C20_Underflow ==
    [][\A ins \in FreeMoves :
          (/\ Perform(ins)
           /\ StackAt(stacks, ins.from).present
           /\ ins.numToMove > Depth(stacks, ins.from)) => spc' = "crashed"]_vars

\* C21: parseShellCommands terminates on every finite input, by consuming
\* all lines or by aborting with an error, also on a "$" line whose command
\* word is neither cd nor ls.
C21_ReplayTerminates ==
    <>(fpc \in {"parsed", "sized", "done", "crashed"})

(***************************************************************************)
(* Properties of the grid scanner on rows of different lengths.            *)
(***************************************************************************)
Ragged(matrix_) == \E r \in 1..Len(matrix_) : Len(matrix_[r]) # Len(matrix_[1])

\* C22: an input whose rows do not all have the same length is rejected:
\* the run aborts and neither a visible count nor a scenic score results.
C22_RaggedRejected ==
    Ragged(matrix) => gpc \notin {"counted", "scored"}

(***************************************************************************)
(* More properties of the filesystem replay and aggregation.               *)
(***************************************************************************)
\* C24: the root has no parent, and every other node reachable from the
\* root has a parent that is reachable from the root and whose children map
\* holds that very node under the node's name, also after a name has been
\* listed twice.
C24_TreeInvariant ==
    /\ nodes[Root].parent = Undefined
    /\ \A n \in Subtree(nodes, Root) \ {Root} :
          LET P == nodes[n].parent
          IN  /\ P # Undefined
              /\ P \in Subtree(nodes, Root)
              /\ MapGet(nodes, nodes[P].children, nodes[n].name) = n

\* a name has been listed twice in a directory below the root, and the
\* replaced node is out of the tree
C24_Witness ==
    /\ fpc = "command"
    /\ \E old \in 1..Len(nodes) :
          /\ old \notin Subtree(nodes, Root)
          /\ nodes[old].parent \in Subtree(nodes, Root) \ {Root}
          /\ \E n \in ChildrenOf(nodes, nodes[old].parent) :
                nodes[n].name = nodes[old].name

\* C25: the second call of findSmallDirs, with the big flag, leaves every
\* node's size as the first call assigned it and the tree's structure as it
\* was.
C25_SecondPassFrame ==
    [][FindBig => nodes' = nodes]_vars

\* both passes have run over a tree with a non-empty directory below the root
C25_Witness ==
    /\ fpc = "done"
    /\ session = "any"
    /\ \E n \in DirsBelow(nodes, Root) \ {Root} : nodes[n].size > 0
    /\ nodes[Root].size > SmallBound

(***************************************************************************)
(* More properties of the crate stacks.                                    *)
(***************************************************************************)
\* how often a label occurs in a sequence of labels
RECURSIVE Occurrences(_, _)
Occurrences(data, label) ==
    IF data = <<>> THEN 0
    ELSE (IF Head(data) = label THEN 1 ELSE 0) + Occurrences(Tail(data), label)

\* how often a label occurs on the stacks k.. of the Array
RECURSIVE OccurrencesFrom(_, _, _)
OccurrencesFrom(st, k, label) ==
    IF k > Len(st) THEN 0
    ELSE (IF st[k].present THEN Occurrences(st[k].data, label) ELSE 0)
            + OccurrencesFrom(st, k + 1, label)

\* the multiset of the labels held by all stacks together
CratesOn(st) == [label \in SeqRange(Letters) |-> OccurrencesFrom(st, 1, label)]

\* C26: an instruction that performInstruction completes without error
\* leaves the multiset of labels on all stacks as it was (so it stays that of
\* the initial diagram), and an instruction with from = to leaves the stacks
\* unchanged.
C26_CrateConservation ==
    [][\A ins \in FreeMoves :
          (Perform(ins) /\ spc' = "run") =>
              /\ CratesOn(stacks') = CratesOn(stacks)
              /\ ins.from = ins.to => stacks' = stacks]_vars

\* C27: a column of the diagram without a crate is a stack like the others:
\* moving k >= 1 crates onto it is applied normally and the column then
\* holds the moved crates.
C27_EmptyColumn ==
    [][\A ins \in FreeMoves :
          (/\ Perform(ins)
           /\ ins.to <= Len(stacks)
           /\ ~stacks[ins.to].present
           /\ StackAt(stacks, ins.from).present
           /\ ins.numToMove <= Depth(stacks, ins.from)) =>
              /\ spc' = "run"
              /\ stacks'[ins.to].present
              /\ stacks'[ins.to].data = TopBlock(stacks[ins.from].data, ins.numToMove)]_vars

(***************************************************************************)
(* day-03 (part_001, and the same text in part_002): the priority of an    *)
(* item.  A character is kept as its char code.                            *)
(***************************************************************************)
\* 'a'.charCodeAt(0) and 'A'.charCodeAt(0)
CharCodeOfLowerA == 97
CharCodeOfUpperA == 65
CharCodeOfLowerZ == 122
CharCodeOfUpperZ == 90

getCharCodeDistance(a, b) == b - a

getLowercasePriority(letter) == getCharCodeDistance(CharCodeOfLowerA, letter) + 1

getUppercasePriority(letter) == getCharCodeDistance(CharCodeOfUpperA, letter) + 1 + 26

\* /[a-z]/.test(letter) for a single character
lowercaseRegex(letter) == letter \in CharCodeOfLowerA..CharCodeOfLowerZ

\* /[A-z]/.test(letter) for a single character: the class runs from "A" to
\* the lowercase "z"
uppercaseRegex(letter) == letter \in CharCodeOfUpperA..CharCodeOfLowerZ

getPriority(letter) ==
    IF lowercaseRegex(letter) THEN getLowercasePriority(letter)
    ELSE IF uppercaseRegex(letter) THEN getUppercasePriority(letter)
    ELSE 0

PriorityInit ==
    /\ callee = "getPriority"
    /\ \E letter \in 0..MaxCharCode : args = <<letter>>
    /\ result = 0
    /\ cpc = "called"

CallGetPriority ==
    /\ callee = "getPriority"
    /\ cpc = "called"
    /\ result' = getPriority(args[1])
    /\ cpc' = "returned"
    /\ UNCHANGED <<callee, args, ropeVars, tailVars, gridVars, fsVars, stackVars>>

InitPriority ==
    RopeIdle /\ TailIdle /\ GridIdle /\ FsIdle /\ StackIdle /\ PriorityInit
NextPriority == CallGetPriority
SpecPriority == InitPriority /\ [][NextPriority]_vars

\* C28: getPriority returns 1..26 for a..z in order, 27..52 for A..Z in
\* order, and 0 for every character that is not an ASCII letter.
C28_Priority ==
    (callee = "getPriority" /\ cpc = "returned") =>
        LET letter == args[1]
        IN  result =
              IF letter \in CharCodeOfLowerA..CharCodeOfLowerZ
                THEN letter - CharCodeOfLowerA + 1
              ELSE IF letter \in CharCodeOfUpperA..CharCodeOfUpperZ
                THEN letter - CharCodeOfUpperA + 27
              ELSE 0

(***************************************************************************)
(* day-06 (day-06.js, and its part 2 in day-08.js): the marker search.  A  *)
(* string is kept as the sequence of its characters.                       *)
(***************************************************************************)
StreamChars == {"j", "m", "p", "q", "z"}

Streams == UNION {[1..n -> StreamChars] : n \in 0..MaxStream}

\* Math.max
MathMax(a, b) == IF a >= b THEN a ELSE b

\* new Set(string.slice(lowerBound, i + 1))
Buffer(string, lowerBound, i) == SeqRange(Slice(string, lowerBound, i + 1))

\* the loop of findDistinctNChars from index i on
RECURSIVE findDistinctNCharsLoop(_, _, _)
findDistinctNCharsLoop(i, numChars, string) ==
    IF ~(i < Len(string)) THEN -1
    ELSE LET lowerBound == MathMax(0, i - numChars + 1)
             buffer == Buffer(string, lowerBound, i)
         IN  IF Cardinality(buffer) = numChars THEN i
             ELSE findDistinctNCharsLoop(i + 1, numChars, string)

\* findDistinctNChars that returns the leading edge of the marker
findDistinctNCharsLeading(numChars, string) ==
    LET i == findDistinctNCharsLoop(0, numChars, string)
    IN  IF i = -1 THEN -1 ELSE i - numChars + 1

findDistinctNChars(numChars, string) == findDistinctNCharsLoop(0, numChars, string)

\* the loop of findStartOfPacketMarker from index i on
RECURSIVE findStartOfPacketMarkerLoop(_, _)
findStartOfPacketMarkerLoop(i, string) ==
    IF ~(i < Len(string)) THEN -1
    ELSE LET lowerBound == MathMax(0, i - 3)
             buffer == Buffer(string, lowerBound, i)
         IN  IF Cardinality(buffer) = 4 THEN i
             ELSE findStartOfPacketMarkerLoop(i + 1, string)

findStartOfPacketMarker(string) == findStartOfPacketMarkerLoop(0, string)

MarkerInit ==
    /\ \/ /\ callee = "findDistinctNChars"
          /\ \E numChars \in 1..MaxNumChars : \E string \in Streams :
                args = <<numChars, string>>
       \/ /\ callee = "findStartOfPacketMarker"
          /\ \E string \in Streams : args = <<string>>
    /\ result = 0
    /\ cpc = "called"

CallFindDistinctNChars ==
    /\ callee = "findDistinctNChars"
    /\ cpc = "called"
    /\ result' = findDistinctNChars(args[1], args[2])
    /\ cpc' = "returned"
    /\ UNCHANGED <<callee, args, ropeVars, tailVars, gridVars, fsVars, stackVars>>

CallFindStartOfPacketMarker ==
    /\ callee = "findStartOfPacketMarker"
    /\ cpc = "called"
    /\ result' = findStartOfPacketMarker(args[1])
    /\ cpc' = "returned"
    /\ UNCHANGED <<callee, args, ropeVars, tailVars, gridVars, fsVars, stackVars>>

InitMarker ==
    RopeIdle /\ TailIdle /\ GridIdle /\ FsIdle /\ StackIdle /\ MarkerInit
NextMarker ==
    \/ CallFindDistinctNChars
    \/ CallFindStartOfPacketMarker
SpecMarker == InitMarker /\ [][NextMarker]_vars

\* the 0-based indices i >= n - 1 at which the n characters s[i-n+1..i]
\* (0-based) are pairwise distinct
MarkerEnds(n, string) ==
    {i \in (n - 1)..(Len(string) - 1) :
        \A a, b \in (i - n + 1)..i : a # b => string[a + 1] # string[b + 1]}

\* C29: findDistinctNChars(n, s) returns the smallest index i >= n - 1 such
\* that the n characters s[i-n+1..i] are pairwise distinct, and -1 when
\* there is none; findStartOfPacketMarker(s) returns findDistinctNChars(4, s).
C29_Marker ==
    /\ (callee = "findDistinctNChars" /\ cpc = "returned") =>
          LET ends == MarkerEnds(args[1], args[2])
          IN  /\ ends = {} => result = -1
              /\ ends # {} => (result \in ends /\ \A i \in ends : result <= i)
    /\ (callee = "findStartOfPacketMarker" /\ cpc = "returned") =>
          result = findDistinctNChars(4, args[1])

\* a marker of three characters was found after the window had to slide
C29_Witness ==
    /\ callee = "findDistinctNChars"
    /\ cpc = "returned"
    /\ args[1] = 3
    /\ result > args[1] - 1

(***************************************************************************)
(* day-01 (part_000, and the same text in part_003): the calories list.    *)
(* The input text is kept as the sequence of its characters.               *)
(***************************************************************************)
Newline == "\n"

Digits == <<"0", "1", "2", "3", "4", "5", "6", "7", "8", "9">>

\* the lines an Elf can write
CalorieLines == {<<"7">>, <<"1", "0">>}

\* the groups of lines of a calories list
CalorieGroups ==
    UNION {[1..n -> UNION {[1..k -> CalorieLines] : k \in 1..MaxItems}] : n \in 1..MaxElves}

\* the lines of a group, each ended by a newline
RECURSIVE GroupText(_)
GroupText(group) ==
    IF group = <<>> THEN <<>>
    ELSE Head(group) \o <<Newline>> \o GroupText(Tail(group))

\* the groups separated by one empty line each, all lines ended by a newline
RECURSIVE GroupsText(_)
GroupsText(groups) ==
    IF Len(groups) = 1 THEN GroupText(Head(groups))
    ELSE GroupText(Head(groups)) \o <<Newline>> \o GroupsText(Tail(groups))

\* the input text of the groups, with or without the newline at its end
TextOf(groups, trailingNewline) ==
    LET text == GroupsText(groups)
    IN  IF trailingNewline THEN text ELSE SubSeq(text, 1, Len(text) - 1)

\* String#split on the newline: lines is what was split off, line the
\* characters since the last newline
RECURSIVE split(_, _, _)
split(text, lines, line) ==
    IF text = <<>> THEN Append(lines, line)
    ELSE IF Head(text) = Newline THEN split(Tail(text), Append(lines, line), <<>>)
    ELSE split(Tail(text), lines, Append(line, Head(text)))

\* the value of a decimal digit
DigitValue(char) == (CHOOSE d \in 1..Len(Digits) : Digits[d] = char) - 1

\* Number(line) for a line of decimal digits, most significant first
RECURSIVE NumberOfLine(_, _)
NumberOfLine(line, value) ==
    IF line = <<>> THEN value
    ELSE NumberOfLine(Tail(line), value * 10 + DigitValue(Head(line)))

\* the loop of parseCaloriesList over the lines left
RECURSIVE parseCaloriesLoop(_, _, _)
parseCaloriesLoop(lines, countList, current) ==
    IF lines = <<>> THEN countList
    ELSE IF Head(lines) # <<>>
      THEN parseCaloriesLoop(Tail(lines), countList, current + NumberOfLine(Head(lines), 0))
      ELSE parseCaloriesLoop(Tail(lines), Append(countList, current), 0)

parseCaloriesList(list) == parseCaloriesLoop(split(list, <<>>, <<>>), <<>>, 0)

\* args[1] is the input text, args[2] the groups it was written from
CaloriesInit ==
    /\ callee = "parseCaloriesList"
    /\ \E groups \in CalorieGroups : \E trailingNewline \in BOOLEAN :
          args = <<TextOf(groups, trailingNewline), groups>>
    /\ result = 0
    /\ cpc = "called"

CallParseCaloriesList ==
    /\ callee = "parseCaloriesList"
    /\ cpc = "called"
    /\ result' = parseCaloriesList(args[1])
    /\ cpc' = "returned"
    /\ UNCHANGED <<callee, args, ropeVars, tailVars, gridVars, fsVars, stackVars>>

InitCalories ==
    RopeIdle /\ TailIdle /\ GridIdle /\ FsIdle /\ StackIdle /\ CaloriesInit
NextCalories == CallParseCaloriesList
SpecCalories == InitCalories /\ [][NextCalories]_vars

RECURSIVE GroupSum(_)
GroupSum(group) ==
    IF group = <<>> THEN 0
    ELSE NumberOfLine(Head(group), 0) + GroupSum(Tail(group))

\* C30: for groups of numeric lines separated by single empty lines, with
\* or without a newline at the end of the text, parseCaloriesList returns
\* one entry per group, in input order, each the sum of the group's
\* numbers, the last group included.
C30_CaloriesList ==
    (callee = "parseCaloriesList" /\ cpc = "returned") =>
        result = [g \in 1..Len(args[2]) |-> GroupSum(args[2][g])]

====
